---- MODULE Spec2Model ----
(***************************************************************************)
(* Model of clients/cli/src/consts.rs: the process-wide 429 retry timeout  *)
(* (RETRY_TIMEOUT, set_retry_timeout, get_retry_timeout) together with the *)
(* backoff and rate-limiting configuration of cli_consts.                  *)
(*                                                                         *)
(* u64 values are kept at their width: a u64 is a tuple of 8 bytes, least  *)
(* significant first, an i64 is the same 8 bytes read in two's complement, *)
(* and an f64 is a pair mant * 2^exp with mant < 2^53, rounded to nearest, *)
(* ties to even, as the hardware does.                                     *)
(***************************************************************************)
EXTENDS Integers, Sequences, FiniteSets, TLC

(***************************************************************************)
(* Unbounded naturals as byte sequences, least significant byte first.     *)
(***************************************************************************)
RECURSIVE NatToBytes(_)
NatToBytes(n) ==
    IF n = 0 THEN <<>> ELSE <<n % 256>> \o NatToBytes(n \div 256)

Digit(a, i) == IF i <= Len(a) THEN a[i] ELSE 0

RECURSIVE Trim(_)
Trim(a) ==
    IF a = <<>> THEN a
    ELSE IF a[Len(a)] = 0 THEN Trim(SubSeq(a, 1, Len(a) - 1))
    ELSE a

RECURSIVE AddFrom(_, _, _, _)
AddFrom(a, b, i, c) ==
    IF i > Len(a) /\ i > Len(b)
    THEN (IF c = 0 THEN <<>> ELSE <<c>>)
    ELSE LET s == Digit(a, i) + Digit(b, i) + c
         IN  <<s % 256>> \o AddFrom(a, b, i + 1, s \div 256)

BigAdd(a, b) == Trim(AddFrom(a, b, 1, 0))

RECURSIVE SubFrom(_, _, _, _)
SubFrom(a, b, i, borrow) ==
    IF i > Len(a) THEN <<>>
    ELSE LET d == Digit(a, i) - Digit(b, i) - borrow
         IN  IF d < 0 THEN <<d + 256>> \o SubFrom(a, b, i + 1, 1)
                      ELSE <<d>> \o SubFrom(a, b, i + 1, 0)

\* a - b for a >= b
BigSub(a, b) == Trim(SubFrom(a, b, 1, 0))

RECURSIVE LessFrom(_, _, _)
LessFrom(a, b, i) ==
    IF i = 0 THEN FALSE
    ELSE IF Digit(a, i) # Digit(b, i) THEN Digit(a, i) < Digit(b, i)
    ELSE LessFrom(a, b, i - 1)

BigLess(a, b) ==
    LessFrom(a, b, IF Len(a) > Len(b) THEN Len(a) ELSE Len(b))

BigEq(a, b) == Trim(a) = Trim(b)

BigLeq(a, b) == ~BigLess(b, a)

RECURSIVE MulDigitFrom(_, _, _, _)
MulDigitFrom(a, d, i, c) ==
    IF i > Len(a)
    THEN (IF c = 0 THEN <<>> ELSE <<c>>)
    ELSE LET p == a[i] * d + c
         IN  <<p % 256>> \o MulDigitFrom(a, d, i + 1, p \div 256)

RECURSIVE BigMul(_, _)
BigMul(a, b) ==
    IF b = <<>> THEN <<>>
    ELSE BigAdd(MulDigitFrom(a, b[1], 1, 0), <<0>> \o BigMul(a, Tail(b)))

RECURSIVE ByteBits(_, _)
ByteBits(d, k) ==
    IF k = 0 THEN <<>> ELSE <<d % 2>> \o ByteBits(d \div 2, k - 1)

RECURSIVE ToBits(_)
ToBits(a) ==
    IF a = <<>> THEN <<>> ELSE ByteBits(a[1], 8) \o ToBits(Tail(a))

RECURSIVE BitsValue(_, _)
BitsValue(bits, k) ==
    IF k = 0 THEN 0 ELSE bits[k] + 2 * BitsValue(bits, k - 1)

RECURSIVE FromBits(_)
FromBits(bits) ==
    IF bits = <<>> THEN <<>>
    ELSE IF Len(bits) <= 8
    THEN <<BitsValue([i \in 1..Len(bits) |-> bits[Len(bits) + 1 - i]], Len(bits))>>
    ELSE <<BitsValue([i \in 1..8 |-> bits[9 - i]], 8)>>
         \o FromBits(SubSeq(bits, 9, Len(bits)))

RECURSIVE TopBit(_, _)
TopBit(bits, k) ==
    IF k = 0 THEN 0 ELSE IF bits[k] = 1 THEN k ELSE TopBit(bits, k - 1)

\* number of significant bits of a
BitLen(a) == LET bits == ToBits(a) IN TopBit(bits, Len(bits))

\* floor(a / 2^k)
ShiftRight(a, k) ==
    LET bits == ToBits(a)
    IN  IF k >= Len(bits) THEN <<>>
        ELSE Trim(FromBits(SubSeq(bits, k + 1, Len(bits))))

\* a * 2^k
ShiftLeft(a, k) == Trim(FromBits([i \in 1..k |-> 0] \o ToBits(a)))

\* a mod 2^k
LowBits(a, k) ==
    LET bits == ToBits(a)
    IN  IF k >= Len(bits) THEN Trim(a)
        ELSE Trim(FromBits(SubSeq(bits, 1, k)))

Pow2(k) == ShiftLeft(<<1>>, k)

(***************************************************************************)
(* u64 and i64: 8 bytes, least significant first.                          *)
(***************************************************************************)
\* the natural a reduced mod 2^64, as a u64
ToU64(a) ==
    <<Digit(a, 1), Digit(a, 2), Digit(a, 3), Digit(a, 4),
      Digit(a, 5), Digit(a, 6), Digit(a, 7), Digit(a, 8)>>

\* a small natural as a u64
U64(n) == ToU64(NatToBytes(n))

U64_MAX == <<255, 255, 255, 255, 255, 255, 255, 255>>

\* the sign bit of the 8 bytes read as an i64
IsNegative(x) == x[8] >= 128

\* checked i64 addition: the wrapped sum and whether it overflowed
I64Add(a, b) ==
    LET w == ToU64(BigAdd(a, b))
    IN  [val |-> w,
         overflow |-> IsNegative(a) = IsNegative(b)
                      /\ IsNegative(w) # IsNegative(a)]

\* checked i64 subtraction
I64Sub(a, b) ==
    LET w == ToU64(BigAdd(a, BigSub(Pow2(64), Trim(b))))
    IN  [val |-> w,
         overflow |-> IsNegative(a) # IsNegative(b)
                      /\ IsNegative(w) # IsNegative(a)]

\* checked u64 multiplication
U64Mul(a, b) ==
    LET p == BigMul(Trim(a), Trim(b))
    IN  [val |-> ToU64(p), overflow |-> Len(p) > 8]

(***************************************************************************)
(* f64: mant * 2^exp with mant < 2^53 (no value here is subnormal,         *)
(* infinite or NaN).                                                       *)
(***************************************************************************)
\* m * 2^e rounded to 53 significant bits, to nearest, ties to even
RoundToF64(m, e) ==
    LET len == BitLen(m)
    IN  IF len <= 53 THEN [mant |-> Trim(m), exp |-> e]
        ELSE LET s    == len - 53
                 q    == ShiftRight(m, s)
                 rem  == LowBits(m, s)
                 half == Pow2(s - 1)
                 up   == BigLess(half, rem)
                         \/ (BigEq(half, rem) /\ Digit(q, 1) % 2 = 1)
             IN  [mant |-> IF up THEN BigAdd(q, <<1>>) ELSE q, exp |-> e + s]

\* x as f64
U64AsF64(x) == RoundToF64(Trim(x), 0)

\* the f64 literal 0.1 = 0x3FB999999999999A = 0x1999999999999A * 2^-56
F64_TENTH == [mant |-> <<154, 153, 153, 153, 153, 153, 25>>, exp |-> 0 - 56]

\* f * g in f64
F64Mul(f, g) == RoundToF64(BigMul(f.mant, g.mant), f.exp + g.exp)

\* f as u64: truncation toward zero, saturating
F64AsU64(f) ==
    LET v == IF f.exp >= 0 THEN ShiftLeft(f.mant, f.exp)
                           ELSE ShiftRight(f.mant, 0 - f.exp)
    IN  IF Len(v) > 8 THEN U64_MAX ELSE ToU64(v)


RECURSIVE DivSmallFrom(_, _, _, _)
DivSmallFrom(a, d, i, r) ==
    IF i = 0 THEN <<>>
    ELSE LET cur == r * 256 + a[i]
         IN  DivSmallFrom(a, d, i - 1, cur % d) \o <<cur \div d>>

\* floor(a / d) for a small divisor d (used by the properties, not by the code)
BigDivSmall(a, d) == Trim(DivSmallFrom(a, d, Len(a), 0))

(***************************************************************************)
(* cli_consts: backoff configuration.                                      *)
(***************************************************************************)
task_fetching_INITIAL_BACKOFF_MS == 120000

task_fetching_MAX_RETRIES == 2

\* the task-fetch delay copied into the submission module
proof_submission_INITIAL_BACKOFF_MS_AsFetch == task_fetching_INITIAL_BACKOFF_MS

proof_submission_INITIAL_BACKOFF_MS == 1000

proof_submission_MAX_RETRIES == 5

\* std::time::Duration::from_millis
Duration_from_millis(millis) ==
    [secs |-> millis \div 1000, nanos |-> (millis % 1000) * 1000000]

task_fetching_initial_backoff == Duration_from_millis(task_fetching_INITIAL_BACKOFF_MS)

proof_submission_initial_backoff ==
    Duration_from_millis(proof_submission_INITIAL_BACKOFF_MS)

Policies == {"task_fetching", "proof_submission"}

\* what a worker reads of a policy module: initial_backoff() and MAX_RETRIES
BackoffPolicy(p) ==
    IF p = "task_fetching"
    THEN [initial_delay |-> task_fetching_initial_backoff,
          max_retries |-> task_fetching_MAX_RETRIES]
    ELSE [initial_delay |-> proof_submission_initial_backoff,
          max_retries |-> proof_submission_MAX_RETRIES]

NoPolicy == [initial_delay |-> [secs |-> 0, nanos |-> 0], max_retries |-> 0]

(***************************************************************************)
(* The retry timeout: RETRY_TIMEOUT, set_retry_timeout, get_retry_timeout. *)
(***************************************************************************)
\* the default written in milliseconds
DEFAULT_RETRY_TIMEOUT_Millis == U64(30000)

DEFAULT_RETRY_TIMEOUT == U64(30)

\* (base_timeout as f64 * 0.1) as u64
variation_range(base_timeout) ==
    F64AsU64(F64Mul(U64AsF64(base_timeout), F64_TENTH))

\* Largest upper end of gen_range whose values are all enumerated; a wider
\* range is sampled at its ends and around its middle.
MaxEnumDraw == 8

\* values rng.gen_range(0..=hi) is let to produce
Draws(hi) ==
    IF BigLeq(hi, U64(MaxEnumDraw))
    THEN {U64(n) : n \in 0..hi[1]}
    ELSE LET mid == ToU64(ShiftRight(hi, 1))
         IN  {U64(0), ToU64(BigSub(mid, <<1>>)), mid, ToU64(BigAdd(mid, <<1>>)), hi}

Returned(v, g, drew) == [kind |-> "return", value |-> v, draw |-> g, drew |-> drew]

Panicked(g, drew) == [kind |-> "panic", value |-> U64(0), draw |-> g, drew |-> drew]

NoResult == [kind |-> "none", value |-> U64(0), draw |-> U64(0), drew |-> FALSE]

\* the clamp testing result < 0 instead of result < 1
Jittered_ClampBelowZero(base_timeout, range, g, overflow_checks) ==
    LET variation == I64Sub(g, range)
        result    == I64Add(base_timeout, variation.val)
    IN  IF overflow_checks /\ (variation.overflow \/ result.overflow)
        THEN Panicked(g, TRUE)
        ELSE IF IsNegative(result.val)
        THEN Returned(U64(1), g, TRUE)
        ELSE Returned(result.val, g, TRUE)

\* The end of get_retry_timeout once the draw g is made: variation, result, clamp.
\* An i64 overflow panics when overflow checks are compiled in, and wraps otherwise.
Jittered(base_timeout, range, g, overflow_checks) ==
    LET variation == I64Sub(g, range)
        result    == I64Add(base_timeout, variation.val)
    IN  IF overflow_checks /\ (variation.overflow \/ result.overflow)
        THEN Panicked(g, TRUE)
        ELSE IF IsNegative(result.val) \/ result.val = U64(0)
        THEN Returned(U64(1), g, TRUE)
        ELSE Returned(result.val, g, TRUE)

\* the floor returning the base instead of 1
get_retry_timeout_NoFloor(base_timeout, overflow_checks) ==
    IF BigLeq(base_timeout, U64(1))
    THEN {Returned(base_timeout, U64(0), FALSE)}
    ELSE LET range == variation_range(base_timeout)
         IN  IF range = U64(0)
             THEN {Returned(base_timeout, U64(0), FALSE)}
             ELSE LET hi == U64Mul(range, U64(2))
                  IN  IF overflow_checks /\ hi.overflow
                      THEN {Panicked(U64(0), FALSE)}
                      ELSE {Jittered(base_timeout, range, g, overflow_checks) :
                                g \in Draws(hi.val)}

\* every way get_retry_timeout can end once it has loaded base_timeout
get_retry_timeout(base_timeout, overflow_checks) ==
    IF BigLeq(base_timeout, U64(1))
    THEN {Returned(U64(1), U64(0), FALSE)}
    ELSE LET range == variation_range(base_timeout)
         IN  IF range = U64(0)
             THEN {Returned(base_timeout, U64(0), FALSE)}
             ELSE LET hi == U64Mul(range, U64(2))
                  IN  IF overflow_checks /\ hi.overflow
                      THEN {Panicked(U64(0), FALSE)}
                      ELSE {Jittered(base_timeout, range, g, overflow_checks) :
                                g \in Draws(hi.val)}

(***************************************************************************)
(* cli_consts::rate_limiting: the two quotas, and the sliding-window       *)
(* limiter that consumes them.                                             *)
(***************************************************************************)
\* the task-fetch quota off by one
TASK_FETCH_MAX_REQUESTS_PER_WINDOW_OffByOne == 60 + 1

TASK_FETCH_MAX_REQUESTS_PER_WINDOW == 60

TASK_FETCH_WINDOW_MS == 60000

SUBMISSION_MAX_REQUESTS_PER_WINDOW == 100

SUBMISSION_WINDOW_MS == 60000

task_fetch_window == Duration_from_millis(TASK_FETCH_WINDOW_MS)

submission_window == Duration_from_millis(SUBMISSION_WINDOW_MS)

\* Duration::as_millis
Duration_as_millis(d) == d.secs * 1000 + d.nanos \div 1000000

\* RateLimiterState {window, max_requests, timestamps}, instants in milliseconds
RateLimiterState(window, max_requests) ==
    [window |-> Duration_as_millis(window), max_requests |-> max_requests,
     timestamps |-> <<>>]

LimiterNames == {"task_fetch", "submission"}

NewLimiter(name) ==
    IF name = "task_fetch"
    THEN RateLimiterState(task_fetch_window, TASK_FETCH_MAX_REQUESTS_PER_WINDOW)
    ELSE RateLimiterState(submission_window, SUBMISSION_MAX_REQUESTS_PER_WINDOW)

\* the retained timestamps not older than cutoff
Evict(timestamps, cutoff) == SelectSeq(timestamps, LAMBDA ts : ts >= cutoff)

\* try_acquire(now): evict, then record now and allow if there is room
try_acquire(l, at) ==
    LET kept == Evict(l.timestamps, at - l.window)
    IN  IF Len(kept) < l.max_requests
        THEN [limiter |-> [l EXCEPT !.timestamps = Append(kept, at)],
              allowed |-> TRUE, remaining |-> Len(kept)]
        ELSE [limiter |-> [l EXCEPT !.timestamps = kept],
              allowed |-> FALSE, remaining |-> Len(kept)]

\* the last instant of the clock
MaxNow == 60001

(***************************************************************************)
(* The callers: worker threads, each idle or inside one call.              *)
(***************************************************************************)
Threads == {"t1", "t2"}

\* calls of set_retry_timeout made in one run
MaxSets == 2

\* the arguments set_retry_timeout is called with
SetArgs ==
    {U64(0), U64(1), U64(5),
     ToU64(BigSub(Pow2(53), <<13>>)),     \* 2^53 - 13
     ToU64(BigSub(Pow2(63), <<1>>)),      \* i64::MAX
     ToU64(Pow2(63)),                     \* i64::MAX + 1
     U64_MAX}

VARIABLES
    RETRY_TIMEOUT,     \* the static AtomicU64
    overflow_checks,   \* whether the build panics on integer overflow
    outcomes,          \* get_retry_timeout under this build, evaluated once for
                       \* each value the cell can hold
    pc,                \* where each thread is
    timeout_seconds,   \* set_retry_timeout's argument, per thread
    base_timeout,      \* get_retry_timeout's local, per thread
    result,            \* how the thread's last get_retry_timeout ended
    policy,            \* the backoff policy a thread has read
    sets_started,      \* history: calls of set_retry_timeout begun
    stored,            \* history: the arguments stored so far
    observed,          \* history: the values the cell held from a thread's call
                       \* of get_retry_timeout to its load
    own_steps,         \* history: steps a thread has taken inside its call
    limiter_name,      \* which rate limiter instance is exercised
    limiter,           \* its RateLimiterState
    now,               \* the clock, in milliseconds
    last_acquire,      \* how the last try_acquire ended
    admitted,          \* history: the instants of all allowed requests
    was_denied         \* history: whether a try_acquire has been denied

retry_vars == <<RETRY_TIMEOUT, overflow_checks, outcomes, pc, timeout_seconds,
                base_timeout, result, policy, sets_started, stored, observed,
                own_steps>>

limiter_vars == <<limiter_name, limiter, now, last_acquire, admitted, was_denied>>

vars == <<retry_vars, limiter_vars>>

InCall(t) == pc[t] \in {"set", "get", "loaded"}

NoAcquire == [called |-> FALSE, allowed |-> FALSE, remaining |-> 0]

InitRetry(builds) ==
    /\ RETRY_TIMEOUT = DEFAULT_RETRY_TIMEOUT
    /\ overflow_checks \in builds
    /\ outcomes = [b \in SetArgs \cup {DEFAULT_RETRY_TIMEOUT} |->
                      get_retry_timeout(b, overflow_checks)]
    /\ pc = [t \in Threads |-> "idle"]
    /\ timeout_seconds = [t \in Threads |-> U64(0)]
    /\ base_timeout = [t \in Threads |-> U64(0)]
    /\ result = [t \in Threads |-> NoResult]
    /\ policy = [t \in Threads |-> NoPolicy]
    /\ sets_started = 0
    /\ stored = {}
    /\ observed = [t \in Threads |-> {}]
    /\ own_steps = [t \in Threads |-> 0]

InitLimiter(names) ==
    /\ limiter_name \in names
    /\ limiter = NewLimiter(limiter_name)
    /\ now = 0
    /\ last_acquire = NoAcquire
    /\ admitted = <<>>
    /\ was_denied = FALSE

Init == InitRetry(BOOLEAN) /\ InitLimiter({"task_fetch"})

\* a thread calls set_retry_timeout(a)
CallSet(t, a) ==
    /\ pc[t] = "idle"
    /\ sets_started < MaxSets
    /\ pc' = [pc EXCEPT ![t] = "set"]
    /\ timeout_seconds' = [timeout_seconds EXCEPT ![t] = a]
    /\ sets_started' = sets_started + 1
    /\ own_steps' = [own_steps EXCEPT ![t] = 0]
    /\ UNCHANGED <<RETRY_TIMEOUT, overflow_checks, outcomes, base_timeout, result,
                   policy, stored, observed>>
    /\ UNCHANGED limiter_vars

\* the store behind a lock that readers hold: it waits while a call of
\* get_retry_timeout is under way
Store_WaitsForReaders(t) ==
    /\ pc[t] = "set"
    /\ \A u \in Threads : pc[u] \notin {"get", "loaded"}
    /\ RETRY_TIMEOUT' = timeout_seconds[t]
    /\ pc' = [pc EXCEPT ![t] = "idle"]
    /\ stored' = stored \cup {timeout_seconds[t]}
    /\ observed' = observed
    /\ timeout_seconds' = [timeout_seconds EXCEPT ![t] = U64(0)]
    /\ own_steps' = [own_steps EXCEPT ![t] = @ + 1]
    /\ UNCHANGED <<overflow_checks, outcomes, base_timeout, result, policy,
                   sets_started>>
    /\ UNCHANGED limiter_vars

\* RETRY_TIMEOUT.store(timeout_seconds, SeqCst), and the return
Store(t) ==
    /\ pc[t] = "set"
    /\ RETRY_TIMEOUT' = timeout_seconds[t]
    /\ pc' = [pc EXCEPT ![t] = "idle"]
    /\ stored' = stored \cup {timeout_seconds[t]}
    /\ observed' = [u \in Threads |->
                      IF pc[u] = "get"
                      THEN observed[u] \cup {timeout_seconds[t]}
                      ELSE observed[u]]
    /\ timeout_seconds' = [timeout_seconds EXCEPT ![t] = U64(0)]
    /\ own_steps' = [own_steps EXCEPT ![t] = @ + 1]
    /\ UNCHANGED <<overflow_checks, outcomes, base_timeout, result, policy,
                   sets_started>>
    /\ UNCHANGED limiter_vars

\* a thread calls get_retry_timeout()
CallGet(t) ==
    /\ pc[t] = "idle"
    /\ pc' = [pc EXCEPT ![t] = "get"]
    /\ observed' = [observed EXCEPT ![t] = {RETRY_TIMEOUT}]
    /\ own_steps' = [own_steps EXCEPT ![t] = 0]
    /\ UNCHANGED <<RETRY_TIMEOUT, overflow_checks, outcomes, timeout_seconds,
                   base_timeout, result, policy, sets_started, stored>>
    /\ UNCHANGED limiter_vars

\* a load in two halves: the low four bytes of the cell, and the high four bytes
\* of the cell or of a value a writer is about to store
Load_Torn(t) ==
    /\ pc[t] = "get"
    /\ \E high \in {RETRY_TIMEOUT} \cup {timeout_seconds[u] : u \in {v \in Threads : pc[v] = "set"}} :
          base_timeout' = [base_timeout EXCEPT ![t] =
                              SubSeq(RETRY_TIMEOUT, 1, 4) \o SubSeq(high, 5, 8)]
    /\ pc' = [pc EXCEPT ![t] = "loaded"]
    /\ own_steps' = [own_steps EXCEPT ![t] = @ + 1]
    /\ UNCHANGED <<RETRY_TIMEOUT, overflow_checks, outcomes, timeout_seconds,
                   result, policy, sets_started, stored, observed>>
    /\ UNCHANGED limiter_vars

\* let base_timeout = RETRY_TIMEOUT.load(SeqCst)
Load(t) ==
    /\ pc[t] = "get"
    /\ base_timeout' = [base_timeout EXCEPT ![t] = RETRY_TIMEOUT]
    /\ pc' = [pc EXCEPT ![t] = "loaded"]
    /\ own_steps' = [own_steps EXCEPT ![t] = @ + 1]
    /\ UNCHANGED <<RETRY_TIMEOUT, overflow_checks, outcomes, timeout_seconds,
                   result, policy, sets_started, stored, observed>>
    /\ UNCHANGED limiter_vars

\* the jittered result written back to the cell
Compute_StoresJitter(t) ==
    /\ pc[t] = "loaded"
    /\ \E o \in outcomes[base_timeout[t]] :
          /\ result' = [result EXCEPT ![t] = o]
          /\ pc' = [pc EXCEPT ![t] =
                       IF o.kind = "panic" THEN "panicked" ELSE "returned"]
          /\ RETRY_TIMEOUT' = IF o.kind = "panic" THEN RETRY_TIMEOUT ELSE o.value
    /\ observed' = [observed EXCEPT ![t] = {}]
    /\ own_steps' = [own_steps EXCEPT ![t] = @ + 1]
    /\ UNCHANGED <<overflow_checks, outcomes, timeout_seconds,
                   base_timeout, policy, sets_started, stored>>
    /\ UNCHANGED limiter_vars

\* the rest of get_retry_timeout: floor, range, draw, clamp, return (or panic)
Compute(t) ==
    /\ pc[t] = "loaded"
    /\ \E o \in outcomes[base_timeout[t]] :
          /\ result' = [result EXCEPT ![t] = o]
          /\ pc' = [pc EXCEPT ![t] =
                       IF o.kind = "panic" THEN "panicked" ELSE "returned"]
    /\ observed' = [observed EXCEPT ![t] = {}]
    /\ own_steps' = [own_steps EXCEPT ![t] = @ + 1]
    /\ UNCHANGED <<RETRY_TIMEOUT, overflow_checks, outcomes, timeout_seconds,
                   base_timeout, policy, sets_started, stored>>
    /\ UNCHANGED limiter_vars

\* a thread reads a backoff policy: initial_backoff() and MAX_RETRIES
ReadPolicy(t, p) ==
    /\ pc[t] = "idle"
    /\ policy' = [policy EXCEPT ![t] = BackoffPolicy(p)]
    /\ pc' = [pc EXCEPT ![t] = p]
    /\ UNCHANGED <<RETRY_TIMEOUT, overflow_checks, outcomes, timeout_seconds,
                   base_timeout, result, sets_started, stored, observed, own_steps>>
    /\ UNCHANGED limiter_vars

\* the caller has used the value it got and is ready for its next call
Resume(t) ==
    /\ pc[t] \in {"returned"} \cup Policies
    /\ pc' = [pc EXCEPT ![t] = "idle"]
    /\ base_timeout' = [base_timeout EXCEPT ![t] = U64(0)]
    /\ result' = [result EXCEPT ![t] = NoResult]
    /\ policy' = [policy EXCEPT ![t] = NoPolicy]
    /\ own_steps' = [own_steps EXCEPT ![t] = 0]
    /\ UNCHANGED <<RETRY_TIMEOUT, overflow_checks, outcomes, timeout_seconds,
                   sets_started, stored, observed>>
    /\ UNCHANGED limiter_vars

Next ==
    \E t \in Threads :
        \/ \E a \in SetArgs : CallSet(t, a)
        \/ Store(t)
        \/ CallGet(t)
        \/ Load(t)
        \/ Compute(t)
        \/ \E p \in Policies : ReadPolicy(t, p)
        \/ Resume(t)

Spec == Init /\ [][Next]_vars

(***************************************************************************)
(* The rate limiter on its own: one instance, one caller at a time (the    *)
(* evict-and-record step is atomic), a clock that never goes back.         *)
(***************************************************************************)
InitRL == InitRetry({FALSE}) /\ InitLimiter(LimiterNames)

TryAcquire ==
    LET r == try_acquire(limiter, now)
    IN  /\ limiter' = r.limiter
        /\ last_acquire' = [called |-> TRUE, allowed |-> r.allowed,
                            remaining |-> r.remaining]
        /\ admitted' = IF r.allowed THEN Append(admitted, now) ELSE admitted
        /\ was_denied' = (was_denied \/ ~r.allowed)
        /\ UNCHANGED <<limiter_name, now>>
        /\ UNCHANGED retry_vars

\* time passes: a full window, or a full window and a millisecond
Advance(d) ==
    /\ now + d <= MaxNow
    /\ now' = now + d
    /\ last_acquire' = NoAcquire
    /\ UNCHANGED <<limiter_name, limiter, admitted, was_denied>>
    /\ UNCHANGED retry_vars

NextRL ==
    \/ TryAcquire
    \/ \E d \in {limiter.window, limiter.window + 1} : Advance(d)

SpecRL == InitRL /\ [][NextRL]_vars

(***************************************************************************)
(* Properties.                                                             *)
(***************************************************************************)
HasReturned(t) == pc[t] = "returned"

\* floor(b / 10) in exact arithmetic
TenthOf(b) == BigDivSmall(b, 10)

\* C1: a get_retry_timeout call that read a base b >= 2 returns r with
\* max(1, b - floor(b/10)) <= r <= b + floor(b/10), whatever u64 b is.
C1_WithinTenPercentOfAnyBase ==
    \A t \in Threads :
        HasReturned(t) /\ BigLeq(U64(2), base_timeout[t]) =>
            LET b  == base_timeout[t]
                lo == BigSub(b, TenthOf(b))
            IN  /\ BigLeq(IF BigLess(lo, <<1>>) THEN <<1>> ELSE lo, result[t].value)
                /\ BigLeq(result[t].value, BigAdd(b, TenthOf(b)))

\* C2: every value get_retry_timeout returns is at least 1, whatever
\* set_retry_timeout calls and other readers ran beside it.
C2_NeverBelowOne ==
    \A t \in Threads : HasReturned(t) => BigLeq(U64(1), result[t].value)

\* a reader of base 0 got the floor, and a reader of u64::MAX got the clamp
C2_Witness ==
    \E t, u \in Threads :
        /\ HasReturned(t) /\ base_timeout[t] = U64(0) /\ result[t].value = U64(1)
        /\ HasReturned(u) /\ base_timeout[u] = U64_MAX /\ result[u].value = U64(1)
           /\ result[u].drew

\* C3: a get_retry_timeout call that read base 0 or 1 returns exactly 1 and
\* draws no random number.
C3_FloorIsExactlyOne ==
    \A t \in Threads :
        pc[t] \in {"returned", "panicked"} /\ BigLeq(base_timeout[t], U64(1)) =>
            /\ HasReturned(t)
            /\ result[t].value = U64(1)
            /\ ~result[t].drew

\* both floor cases at once: one reader of a stored 0, one of a stored 1
C3_Witness ==
    \E t, u \in Threads :
        /\ HasReturned(t) /\ base_timeout[t] = U64(0) /\ U64(0) \in stored
        /\ HasReturned(u) /\ base_timeout[u] = U64(1) /\ U64(1) \in stored

\* C4: the stored value changes only in the store of a set_retry_timeout call,
\* and that store makes it exactly the call's argument; no step of
\* get_retry_timeout changes it.
C4_OnlySetChangesStoredValue ==
    [][/\ RETRY_TIMEOUT' # RETRY_TIMEOUT =>
            \E t \in Threads : pc[t] = "set" /\ pc'[t] = "idle"
       /\ \A t \in Threads :
            /\ pc[t] = "set" /\ pc'[t] = "idle" => RETRY_TIMEOUT' = timeout_seconds[t]
            /\ pc[t] \in {"get", "loaded"} /\ pc'[t] # pc[t] =>
                  RETRY_TIMEOUT' = RETRY_TIMEOUT]_vars

\* two readers got different values from one stored base, which is still stored
C4_Witness ==
    \E t, u \in Threads :
        /\ HasReturned(t) /\ HasReturned(u)
        /\ base_timeout[t] = RETRY_TIMEOUT /\ base_timeout[u] = RETRY_TIMEOUT
        /\ result[t].value # result[u].value
        /\ result[t].value # RETRY_TIMEOUT
        /\ RETRY_TIMEOUT \in stored

\* C5: the base a get_retry_timeout call works from is one single value that the
\* cell held at some moment between the call and its load (so, when no store ran
\* in between, the value the last completed set stored), and the call's result is
\* one of the results of that base.
C5_LoadsOneStoredValue ==
    \A t \in Threads :
        /\ pc[t] = "loaded" => base_timeout[t] \in observed[t]
        /\ pc[t] \in {"returned", "panicked"} =>
              result[t] \in outcomes[base_timeout[t]]

\* a store ran between a reader's call and its load, and the reader got the new value
C5_Witness ==
    \E t \in Threads :
        /\ pc[t] = "loaded"
        /\ Cardinality(observed[t]) = 2
        /\ base_timeout[t] # DEFAULT_RETRY_TIMEOUT

\* C6: a thread inside set_retry_timeout or get_retry_timeout can always take its
\* next step, wherever the other threads stand, and ends its call within two steps
\* of its own.
C6_NonBlocking ==
    \A t \in Threads :
        /\ pc[t] = "set" => ENABLED Store(t)
        /\ pc[t] = "get" => ENABLED Load(t)
        /\ pc[t] = "loaded" => ENABLED Compute(t)
        /\ own_steps[t] <= 2
        /\ InCall(t) => own_steps[t] <= 1

\* a reader between load and return while a writer stands before its store
C6_Witness ==
    \E t, u \in Threads : pc[t] = "loaded" /\ pc[u] = "set"

\* C7: the task-fetch policy is 120 s initial delay and 2 retries, the submission
\* policy 1 s and 5 retries, and the submission delay is the shorter one.
C7_BackoffPolicies ==
    \A t \in Threads :
        /\ pc[t] = "task_fetching" =>
              /\ policy[t].initial_delay = [secs |-> 120, nanos |-> 0]
              /\ policy[t].max_retries = 2
        /\ pc[t] = "proof_submission" =>
              /\ policy[t].initial_delay = [secs |-> 1, nanos |-> 0]
              /\ policy[t].max_retries = 5
        /\ \A u \in Threads :
              pc[t] = "proof_submission" /\ pc[u] = "task_fetching" =>
                  Duration_as_millis(policy[t].initial_delay)
                      < Duration_as_millis(policy[u].initial_delay)

\* one thread holds the task-fetch policy and the other the submission policy
C7_Witness ==
    \E t, u \in Threads : pc[t] = "task_fetching" /\ pc[u] = "proof_submission"

\* the admitted instants inside the window that ends now
InWindow == SelectSeq(admitted, LAMBDA ts : now - limiter.window <= ts /\ ts <= now)

C9_ExactlyTheTenPercentInterval ==
    \A t \in Threads :
        HasReturned(t) /\ BigLeq(U64(10), base_timeout[t]) =>
            LET b == base_timeout[t]
                r == TenthOf(b)
            IN  /\ result[t].drew
                /\ BigLeq(result[t].draw, BigAdd(r, r))
                /\ BigEq(BigAdd(result[t].value, r), BigAdd(b, result[t].draw))

\* C10: the cell starts at 30 and only ever holds 30 or an argument already
\* stored; a get_retry_timeout that returns before any set_retry_timeout call has
\* begun returns a value from 27 to 33.
C10_DefaultIsThirty ==
    /\ RETRY_TIMEOUT = U64(30) \/ RETRY_TIMEOUT \in stored
    /\ sets_started = 0 =>
          /\ RETRY_TIMEOUT = U64(30)
          /\ \A t \in Threads :
                /\ pc[t] # "panicked"
                /\ HasReturned(t) =>
                      /\ BigLeq(U64(27), result[t].value)
                      /\ BigLeq(result[t].value, U64(33))

\* both ends of the default's interval are returned before any set
C10_Witness ==
    \E t, u \in Threads :
        /\ sets_started = 0
        /\ HasReturned(t) /\ result[t].value = U64(27)
        /\ HasReturned(u) /\ result[u].value = U64(33)

====
